---- MODULE Spec2Model ----
(***************************************************************************)
(* A model of src/spider/hot_comments.py: the DoubanCommentSpider class    *)
(* (get_page_comments, _parse_comments, crawl_all, save_to_json,           *)
(* save_to_csv) and main().                                                *)
(*                                                                         *)
(* Conventions.                                                            *)
(*  - A text is a sequence of characters.  The seven letters "allstar"     *)
(*    are written as the single element "allstar", " " is whitespace, "x"  *)
(*    is any character that is neither a digit, a sign nor whitespace.     *)
(*  - An optional value (a tag or attribute that BeautifulSoup may not     *)
(*    find) is a sequence of length 0 (None) or 1 (the value).             *)
(*  - A record's rating is <<>> for the Python value '' and <<n>> for the  *)
(*    Python int n.                                                        *)
(***************************************************************************)
EXTENDS Integers, Sequences, FiniteSets, TLC

VARIABLES
    pc,             \* where the spider's code is: idle, loop, pause, raised, exited, parse
    main_pc,        \* where main() is: none (main is not the caller), L305, L308, L311, end
    max_page,       \* self.max_page
    page,           \* the loop variable of crawl_all
    all_comments,   \* self.all_comments
    page_comments,  \* the list the last get_page_comments / _parse_comments call returned
    html_content,   \* the argument of the last direct _parse_comments call
    console,        \* the messages the last step printed
    fs,             \* the two output files
    bs4_installed,  \* whether "from bs4 import BeautifulSoup" succeeds
    response,       \* history: what the last requests.get did (kind, status code)
    events,         \* history: the Fetch / Pause / Done events of the current crawl_all call
    base,           \* history: self.all_comments when the current crawl_all call started
    got,            \* history: the lists get_page_comments returned in the current crawl_all call
    returned,       \* the value the last completed crawl_all call returned (<<>> before: none)
    attempted       \* history: the exporters that have been called

vars == <<pc, main_pc, max_page, page, all_comments, page_comments, html_content,
          console, fs, bs4_installed, response, events, base, got, returned, attempted>>

-----------------------------------------------------------------------------
(* Bounds *)

MaxItems == 3       \* comment-item elements on a page given to _parse_comments
MaxPages == 2       \* largest max_page a spider is constructed with
MaxRecords == 2     \* a caller starts another crawl_all only below this many records

-----------------------------------------------------------------------------
(* Python text operations *)

Digits == {"0", "1", "2", "3", "4", "5", "6", "7", "8", "9"}

DigitVal(c) ==
    CASE c = "0" -> 0 [] c = "1" -> 1 [] c = "2" -> 2 [] c = "3" -> 3
      [] c = "4" -> 4 [] c = "5" -> 5 [] c = "6" -> 6 [] c = "7" -> 7
      [] c = "8" -> 8 [] c = "9" -> 9

RECURSIVE LStrip(_)
LStrip(s) == IF s # <<>> /\ Head(s) = " " THEN LStrip(Tail(s)) ELSE s

RECURSIVE RStrip(_)
RStrip(s) ==
    IF s # <<>> /\ s[Len(s)] = " " THEN RStrip(SubSeq(s, 1, Len(s) - 1)) ELSE s

\* str.strip()
Strip(s) == RStrip(LStrip(s))

RECURSIVE DecimalValue(_)
DecimalValue(s) ==
    IF s = <<>> THEN 0
    ELSE 10 * DecimalValue(SubSeq(s, 1, Len(s) - 1)) + DigitVal(s[Len(s)])

AllDigits(s) == s # <<>> /\ \A i \in 1..Len(s) : s[i] \in Digits

\* int(text): surrounding whitespace is ignored, one sign is allowed, the rest
\* must be one or more digits; anything else raises ValueError (ok = FALSE).
PyInt(text) ==
    LET s == Strip(text)
        signed == s # <<>> /\ Head(s) \in {"-", "+"}
        body == IF signed THEN Tail(s) ELSE s
    IN  IF AllDigits(body)
        THEN [ok |-> TRUE,
              val |-> IF signed /\ Head(s) = "-" THEN 0 - DecimalValue(body)
                      ELSE DecimalValue(body)]
        ELSE [ok |-> FALSE, val |-> 0]

\* cls.startswith('allstar')
StartsWithAllstar(cls) == cls # <<>> /\ Head(cls) = "allstar"

\* cls.replace('allstar', ''): every occurrence is removed
RemoveAllstar(cls) == SelectSeq(cls, LAMBDA c : c # "allstar")

-----------------------------------------------------------------------------
(* _parse_comments *)

\* username when the comment-info span or its link is missing (line 139)
Anonymous == <<"anonymous">>

\* The first class token that starts with "allstar" (lines 147-148), as an
\* index into classes; 0 when there is none.
FirstAllstar(classes) ==
    LET hits == {i \in 1..Len(classes) : StartsWithAllstar(classes[i])}
    IN  IF hits = {} THEN 0 ELSE CHOOSE i \in hits : \A j \in hits : i <= j

\* Lines 142-151: the rating of one item.  ok = FALSE when int() raises.
RatingOf(item) ==
    IF item.rating = <<>>
    THEN [ok |-> TRUE, val |-> <<>>]
    ELSE LET classes == item.rating[1]
             i == FirstAllstar(classes)
         IN  IF i = 0
             THEN [ok |-> TRUE, val |-> <<>>]
             ELSE LET n == PyInt(RemoveAllstar(classes[i]))
                  IN  IF n.ok THEN [ok |-> TRUE, val |-> <<n.val \div 10>>]
                      ELSE [ok |-> FALSE, val |-> <<>>]

\* Lines 158-159: the votes of one item.  ok = FALSE when int() raises.
VotesOf(item) ==
    IF item.votes = <<>> THEN [ok |-> TRUE, val |-> 0]
    ELSE LET n == PyInt(Strip(item.votes[1]))
         IN  IF n.ok THEN [ok |-> TRUE, val |-> n.val] ELSE [ok |-> FALSE, val |-> 0]

\* Line 135
CommentIdOf(item) == IF item.cid = <<>> THEN "" ELSE item.cid[1]

\* Lines 138-139
UsernameOf(item) ==
    IF item.info # <<>> /\ item.info[1] # <<>> THEN Strip(item.info[1][1]) ELSE Anonymous

\* Lines 154-155
ContentOf(item) == IF item.short = <<>> THEN <<>> ELSE Strip(item.short[1])

\* Lines 162-163
TimeOf(item) ==
    IF item.time = <<>> THEN <<>>
    ELSE IF item.time[1] = <<>> THEN <<>> ELSE Strip(item.time[1][1])

\* Lines 133-179: the body of the loop for one item.  ok = FALSE when the try
\* block raised: the item is reported (line 178) and skipped (line 179).
ParseItem(item) ==
    LET r == RatingOf(item)
        v == VotesOf(item)
    IN  [ok  |-> r.ok /\ v.ok,
         rec |-> [comment_id |-> CommentIdOf(item),
                  username   |-> UsernameOf(item),
                  rating     |-> r.val,
                  content    |-> ContentOf(item),
                  votes      |-> v.val,
                  time       |-> TimeOf(item)]]

\* A loop that stops at the first item that fails (break for continue)
RECURSIVE ParseCommentsAborting(_)
ParseCommentsAborting(items) ==
    IF items = <<>> THEN [comments |-> <<>>, errors |-> 0]
    ELSE LET one == ParseItem(Head(items))
         IN  IF one.ok
             THEN LET rest == ParseCommentsAborting(Tail(items))
                  IN  [comments |-> <<one.rec>> \o rest.comments, errors |-> rest.errors]
             ELSE [comments |-> <<>>, errors |-> 1]

\* Lines 121-181: the records of a page's items, in order, and the number of
\* items reported and skipped.
RECURSIVE ParseComments(_)
ParseComments(items) ==
    IF items = <<>> THEN [comments |-> <<>>, errors |-> 0]
    ELSE LET one == ParseItem(Head(items))
             rest == ParseComments(Tail(items))
         IN  IF one.ok
             THEN [comments |-> <<one.rec>> \o rest.comments, errors |-> rest.errors]
             ELSE [comments |-> rest.comments, errors |-> rest.errors + 1]

-----------------------------------------------------------------------------
(* Page markup: the div.comment-item elements soup.find_all returns *)

Allstar(ds) == <<"allstar">> \o ds

\* span.rating: absent, or its class token list
RatingMarkup ==
    { <<>>,
      << << <<"rating">> >> >>,
      << << Allstar(<<"5", "0">>), <<"rating">> >> >>,
      << << <<"rating">>, Allstar(<<"1", "5">>) >> >>,
      << << Allstar(<<"2", "0">>), Allstar(<<"4", "0">>), <<"rating">> >> >>,
      << << Allstar(<<>>), <<"rating">> >> >>,
      << << Allstar(<<"x">>), Allstar(<<"3", "0">>), <<"rating">> >> >>,
      << << <<"x", "allstar", "5", "0">>, <<"rating">> >> >>,
      << << Allstar(<<"0", "0">>), <<"rating">> >> >>,
      << << Allstar(<<"1", "0", "0">>), <<"rating">> >> >> }

\* span.votes.vote-count: absent, or its text
VotesMarkup ==
    { <<>>,
      << <<"1", "2">> >>,
      << <<" ", "7", " ">> >>,
      << <<"x">> >>,
      << <<>> >>,
      << <<"-", "3">> >> }

\* An item with every element present
Item(cid, rating, votes) ==
    [cid |-> <<cid>>, info |-> << << <<" ", "u", " ">> >> >>, rating |-> rating,
     short |-> << <<"g", " ">> >>, votes |-> votes, time |-> << << <<"t">> >> >>]

\* Items that differ in rating and votes only
GridItems == {Item("c1", r, v) : r \in RatingMarkup, v \in VotesMarkup}

FiveStars == << << Allstar(<<"5", "0">>), <<"rating">> >> >>
ZeroStars == << << Allstar(<<"0", "0">>), <<"rating">> >> >>
NoDigitStars == << << Allstar(<<>>), <<"rating">> >> >>

\* An item with no attribute and no element, and one with empty elements
BareItem ==
    [cid |-> <<>>, info |-> <<>>, rating |-> <<>>, short |-> <<>>, votes |-> <<>>,
     time |-> <<>>]
HollowItem ==
    [cid |-> <<"p6">>, info |-> << <<>> >>, rating |-> <<>>, short |-> << <<>> >>,
     votes |-> << <<"0">> >>, time |-> << <<>> >>]

\* The items pages of several items are made of
PageItems ==
    { Item("p1", FiveStars, << <<"1", "2">> >>),
      Item("p2", <<>>, <<>>),
      Item("p3", FiveStars, << <<"x">> >>),
      Item("p4", NoDigitStars, << <<"7">> >>),
      Item("p5", ZeroStars, << <<"-", "3">> >>),
      BareItem,
      HollowItem }

RECURSIVE SeqsUpTo(_, _)
SeqsUpTo(S, n) ==
    IF n = 0 THEN {<<>>}
    ELSE LET shorter == SeqsUpTo(S, n - 1)
         IN  shorter \cup {Append(s, x) : s \in {t \in shorter : Len(t) = n - 1}, x \in S}

\* The pages _parse_comments is given: every page of at most n of PageItems,
\* and every page of one of GridItems
Pages(n) == SeqsUpTo(PageItems, n) \cup {<<it>> : it \in GridItems}

-----------------------------------------------------------------------------
(* get_page_comments *)

\* The bodies the server answers a crawl with: no item; one item; three items
\* of which the second has a vote text int() rejects.
CrawlBodies ==
    { <<>>,
      << Item("a1", FiveStars, << <<"1", "2">> >>) >>,
      << Item("b1", <<>>, <<>>),
         Item("b2", FiveStars, << <<"x">> >>),
         Item("b3", ZeroStars, << <<"-", "3">> >>) >> }

StatusCodes == {200, 403}

\* What requests.get does (lines 77-82): raise Timeout, raise another
\* RequestException, or return a response.
Responses ==
    {[kind |-> "timeout", status |-> 0, body |-> <<>>],
     [kind |-> "request_error", status |-> 0, body |-> <<>>]}
    \cup {[kind |-> "http", status |-> st, body |-> b] : st \in StatusCodes, b \in CrawlBodies}

RECURSIVE Repeat(_, _)
Repeat(x, n) == IF n = 0 THEN <<>> ELSE <<x>> \o Repeat(x, n - 1)

\* Lines 119-181 as called from line 90: the import at line 119 raises
\* ImportError when bs4 is missing, outside every try block of the parser.
CallParser(items, installed) ==
    IF installed
    THEN LET r == ParseComments(items)
         IN  [raised |-> FALSE, comments |-> r.comments,
              console |-> Repeat("item_error", r.errors)]
    ELSE [raised |-> TRUE, comments |-> <<>>, console |-> <<>>]

\* A fetcher that reports a status other than 200 and parses the body anyway
GetPageCommentsIgnoringStatus(resp, installed) ==
    IF resp.kind = "timeout"
    THEN [raised |-> FALSE, comments |-> <<>>, console |-> <<"fetching", "timeout">>]
    ELSE IF resp.kind = "request_error"
    THEN [raised |-> FALSE, comments |-> <<>>, console |-> <<"fetching", "request_error">>]
    ELSE LET r == CallParser(resp.body, installed)
         IN  IF r.raised
             THEN [raised |-> TRUE, comments |-> <<>>, console |-> <<"fetching">>]
             ELSE [raised |-> FALSE, comments |-> r.comments,
                   console |-> <<"fetching">> \o r.console
                               \o <<IF resp.status = 200 THEN "page_ok" ELSE "status_fail">>]

\* Lines 62-104.  The two except clauses catch requests' exceptions only, so
\* an exception of the parser call at line 90 leaves the function (raised).
GetPageComments(resp, installed) ==
    IF resp.kind = "timeout"
    THEN [raised |-> FALSE, comments |-> <<>>, console |-> <<"fetching", "timeout">>]
    ELSE IF resp.kind = "request_error"
    THEN [raised |-> FALSE, comments |-> <<>>, console |-> <<"fetching", "request_error">>]
    ELSE IF resp.status = 200
    THEN LET r == CallParser(resp.body, installed)
         IN  IF r.raised
             THEN [raised |-> TRUE, comments |-> <<>>, console |-> <<"fetching">>]
             ELSE [raised |-> FALSE, comments |-> r.comments,
                   console |-> <<"fetching">> \o r.console \o <<"page_ok">>]
    ELSE [raised |-> FALSE, comments |-> <<>>, console |-> <<"fetching", "status_fail">>]

-----------------------------------------------------------------------------
(* crawl_all *)

\* A list that keeps only the new page
ExtendReplacing(list, more) == more

\* A list that loses the last record of the page
ExtendDroppingLast(list, more) ==
    IF more = <<>> THEN list ELSE list \o SubSeq(more, 1, Len(more) - 1)

\* Line 208: list.extend
Extend(list, more) == list \o more

\* A loop that leaves one page out
LoopContinuesOffByOne(p, n) == p < n - 1

\* Line 202: range(self.max_page) has a next index
LoopContinues(p, n) == p < n

Fetch(p) == [e |-> "Fetch", p |-> p]
Pause(p) == [e |-> "Pause", p |-> p]
Done(n) == [e |-> "Done", p |-> n]

\* Lines 196-202: crawl_all is entered; self.all_comments is used as it is
EnterCrawlAll ==
    /\ pc' = "loop"
    /\ page' = 0
    /\ events' = <<>>
    /\ base' = all_comments
    /\ got' = <<>>
    /\ console' = <<"crawl_start">>
    /\ UNCHANGED <<max_page, all_comments, page_comments, html_content, fs,
                   bs4_installed, response, returned, attempted>>

\* Lines 204-208: one page is fetched and its records are added
LoopFetch ==
    /\ pc = "loop"
    /\ LoopContinues(page, max_page)
    /\ \E resp \in Responses :
         LET r == GetPageComments(resp, bs4_installed)
         IN  /\ events' = Append(events, Fetch(page))
             /\ response' = [kind |-> resp.kind, status |-> resp.status]
             /\ console' = r.console
             /\ IF r.raised
                THEN /\ pc' = "raised"
                     /\ UNCHANGED <<page_comments, all_comments, got>>
                ELSE /\ pc' = "pause"
                     /\ page_comments' = r.comments
                     /\ all_comments' = Extend(all_comments, r.comments)
                     /\ got' = Append(got, r.comments)
    /\ UNCHANGED <<main_pc, max_page, page, html_content, fs, bs4_installed, base,
                   returned, attempted>>

\* Lines 212-214: the pause; then the loop takes its next index
LoopPause ==
    /\ pc = "pause"
    /\ events' = Append(events, Pause(page))
    /\ console' = <<"pause">>
    /\ page' = page + 1
    /\ pc' = "loop"
    /\ UNCHANGED <<main_pc, max_page, all_comments, page_comments, html_content, fs,
                   bs4_installed, response, base, got, returned, attempted>>

\* Lines 216-220: the loop is over; self.all_comments is returned
CrawlReturn ==
    /\ pc = "loop"
    /\ ~LoopContinues(page, max_page)
    /\ events' = Append(events, Done(max_page))
    /\ console' = <<"crawl_done">>
    /\ returned' = <<all_comments>>
    /\ pc' = "idle"
    /\ UNCHANGED <<main_pc, max_page, page, all_comments, page_comments, html_content,
                   fs, bs4_installed, response, base, got, attempted>>

-----------------------------------------------------------------------------
(* The output files and the exporters *)

AbsentFile == [exists |-> FALSE, kind |-> "none", complete |-> FALSE, data |-> <<>>]
OldFile == [exists |-> TRUE, kind |-> "old", complete |-> TRUE, data |-> <<"old">>]

\* Two files are the same file: same existence, same writer, same content
SameFile(f, g) ==
    /\ f.exists = g.exists
    /\ f.kind = g.kind
    /\ f.complete = g.complete
    /\ Len(f.data) = Len(g.data)
    /\ f.data = g.data

\* Line 267
Fieldnames == <<"comment_id", "username", "rating", "content", "votes", "time">>

\* Lines 270-276: the byte-order mark of utf-8-sig, the header row, one row per
\* record with the record's values in the order of Fieldnames
CsvRows(records) ==
    <<[row |-> "bom"], [row |-> "header", cells |-> Fieldnames]>>
    \o [i \in 1..Len(records) |->
          [row |-> "record",
           cells |-> <<records[i].comment_id, records[i].username, records[i].rating,
                       records[i].content, records[i].votes, records[i].time>>]]

\* Lines 230-242.  open(filename, 'w') either raises, leaving the file as it
\* was, or truncates the file; json.dump either completes or raises part-way.
\* Every exception is caught and reported.
SaveToJson ==
    /\ attempted' = attempted \cup {"json"}
    /\ \/ /\ fs' = fs
          /\ console' = <<"json_error">>
       \/ \E k \in 0..Len(all_comments) :
            /\ fs' = [fs EXCEPT !.json = [exists |-> TRUE, kind |-> "json",
                                          complete |-> FALSE,
                                          data |-> SubSeq(all_comments, 1, k)]]
            /\ console' = <<"json_error">>
       \/ /\ fs' = [fs EXCEPT !.json = [exists |-> TRUE, kind |-> "json",
                                        complete |-> TRUE, data |-> all_comments]]
          /\ console' = <<"json_saved">>
    /\ UNCHANGED <<pc, max_page, page, all_comments, page_comments, html_content,
                   bs4_installed, response, events, base, got, returned>>

\* Lines 256-281.  The file is opened for writing (line 259) before the list
\* is tested (line 262).
SaveToCsv ==
    /\ attempted' = attempted \cup {"csv"}
    /\ \/ /\ fs' = fs
          /\ console' = <<"csv_error">>
       \/ /\ all_comments = <<>>
          /\ fs' = [fs EXCEPT !.csv = [exists |-> TRUE, kind |-> "csv",
                                       complete |-> TRUE, data |-> <<>>]]
          /\ console' = <<"nothing_to_save">>
       \/ /\ all_comments # <<>>
          /\ \E k \in 0..(Len(all_comments) + 1) :
               /\ fs' = [fs EXCEPT !.csv = [exists |-> TRUE, kind |-> "csv",
                                            complete |-> FALSE,
                                            data |-> SubSeq(CsvRows(all_comments), 1, k)]]
               /\ console' = <<"csv_error">>
       \/ /\ all_comments # <<>>
          /\ fs' = [fs EXCEPT !.csv = [exists |-> TRUE, kind |-> "csv",
                                       complete |-> TRUE, data |-> CsvRows(all_comments)]]
          /\ console' = <<"csv_saved">>
    /\ UNCHANGED <<pc, max_page, page, all_comments, page_comments, html_content,
                   bs4_installed, response, events, base, got, returned>>

-----------------------------------------------------------------------------
(* A caller of the class: any sequence of crawl_all, save_to_json, save_to_csv *)

\* Lines 31-43: the spider after __init__, with the files the directory holds
Constructed ==
    /\ pc = "idle"
    /\ max_page \in 0..MaxPages
    /\ page = 0
    /\ all_comments = <<>>
    /\ page_comments = <<>>
    /\ html_content = <<>>
    /\ console = <<>>
    /\ fs \in [json : {AbsentFile, OldFile}, csv : {AbsentFile, OldFile}]
    /\ bs4_installed \in BOOLEAN
    /\ response = [kind |-> "none", status |-> 0]
    /\ events = <<>>
    /\ base = <<>>
    /\ got = <<>>
    /\ returned = <<>>
    /\ attempted = {}

Init == Constructed /\ main_pc = "none"

CallCrawlAll ==
    /\ pc = "idle"
    /\ main_pc = "none"
    /\ Len(all_comments) < MaxRecords
    /\ EnterCrawlAll
    /\ UNCHANGED main_pc

CallSaveToJson ==
    /\ pc = "idle"
    /\ main_pc = "none"
    /\ SaveToJson
    /\ UNCHANGED main_pc

CallSaveToCsv ==
    /\ pc = "idle"
    /\ main_pc = "none"
    /\ SaveToCsv
    /\ UNCHANGED main_pc

Next ==
    \/ CallCrawlAll
    \/ LoopFetch
    \/ LoopPause
    \/ CrawlReturn
    \/ CallSaveToJson
    \/ CallSaveToCsv

Spec == Init /\ [][Next]_vars

-----------------------------------------------------------------------------
(* main *)

\* Lines 295-302: main has constructed its spider.  main sets max_page = 19
\* (line 298); the model takes every page count up to MaxPages.
InitMain == Constructed /\ main_pc = "L305"

\* Line 305
Main305 ==
    /\ main_pc = "L305"
    /\ pc = "idle"
    /\ EnterCrawlAll
    /\ main_pc' = "L308"

\* Line 308
Main308 ==
    /\ main_pc = "L308"
    /\ pc = "idle"
    /\ SaveToJson
    /\ main_pc' = "L311"

\* Line 311
Main311 ==
    /\ main_pc = "L311"
    /\ pc = "idle"
    /\ SaveToCsv
    /\ main_pc' = "end"

\* main returns and the process ends normally
MainReturn ==
    /\ main_pc = "end"
    /\ pc = "idle"
    /\ pc' = "exited"
    /\ UNCHANGED <<main_pc, max_page, page, all_comments, page_comments, html_content,
                   console, fs, bs4_installed, response, events, base, got, returned, attempted>>

NextMain ==
    \/ Main305
    \/ LoopFetch
    \/ LoopPause
    \/ CrawlReturn
    \/ Main308
    \/ Main311
    \/ MainReturn

SpecMain == InitMain /\ [][NextMain]_vars

-----------------------------------------------------------------------------
(* _parse_comments called on its own, on every page of at most MaxItems items *)

InitParse ==
    /\ pc = "parse"
    /\ main_pc = "none"
    /\ max_page = 0
    /\ page = 0
    /\ all_comments = <<>>
    /\ page_comments = <<>>
    /\ html_content \in Pages(MaxItems)
    /\ console = <<>>
    /\ fs = [json |-> AbsentFile, csv |-> AbsentFile]
    /\ bs4_installed \in BOOLEAN
    /\ response = [kind |-> "none", status |-> 0]
    /\ events = <<>>
    /\ base = <<>>
    /\ got = <<>>
    /\ returned = <<>>
    /\ attempted = {}

CallParseComments ==
    /\ pc = "parse"
    /\ LET r == CallParser(html_content, bs4_installed)
       IN  /\ pc' = IF r.raised THEN "raised" ELSE "parsed"
           /\ page_comments' = r.comments
           /\ console' = r.console
    /\ UNCHANGED <<main_pc, max_page, page, all_comments, html_content, fs,
                   bs4_installed, response, events, base, got, returned, attempted>>

NextParse == CallParseComments

SpecParse == InitParse /\ [][NextParse]_vars

-----------------------------------------------------------------------------
(* Helpers of the properties *)

IsPrefix(a, b) == Len(a) <= Len(b) /\ a = SubSeq(b, 1, Len(a))

RECURSIVE Flatten(_)
Flatten(lists) == IF lists = <<>> THEN <<>> ELSE Head(lists) \o Flatten(Tail(lists))

RECURSIVE SumLen(_)
SumLen(lists) == IF lists = <<>> THEN 0 ELSE Len(Head(lists)) + SumLen(Tail(lists))

RECURSIVE FetchPauseUpTo(_)
FetchPauseUpTo(k) ==
    IF k = 0 THEN <<>> ELSE FetchPauseUpTo(k - 1) \o <<Fetch(k - 1), Pause(k - 1)>>

\* Fetch(0), Pause, Fetch(1), Pause, ..., Fetch(n-1), Pause, Done
ExpectedEvents(n) == FetchPauseUpTo(n) \o <<Done(n)>>

CrawlHasReturned == pc = "idle" /\ returned # <<>>

FetchFailed(r) == r.kind \in {"timeout", "request_error"} \/ (r.kind = "http" /\ r.status # 200)

\* the step is a call of get_page_comments
IsFetchStep == pc = "loop" /\ events' = Append(events, Fetch(page))

-----------------------------------------------------------------------------
(* C1 *)

\* C1: one crawl_all call produces exactly Fetch(0), Pause, ..., Fetch(n-1),
\* Pause, Done for max_page = n, whatever each page's outcome (records, no
\* record, timeout, transport error, status other than 200): at every moment
\* the events so far are a prefix of that sequence, the call can always take
\* its next step, and when it has returned the events are the whole sequence.
C1_CrawlEventSequence ==
    /\ IsPrefix(events, ExpectedEvents(max_page))
    /\ CrawlHasReturned => events = ExpectedEvents(max_page)
    /\ pc = "pause" => /\ ENABLED LoopPause
                       /\ events[Len(events)] = Fetch(page)
    /\ pc = "loop" => /\ ENABLED (LoopFetch \/ CrawlReturn)
                      /\ Len(events) = 2 * page
    /\ bs4_installed => pc # "raised"

C1_Witness ==
    /\ CrawlHasReturned
    /\ max_page >= 2
    /\ events = ExpectedEvents(max_page)
    /\ \E i \in 1..Len(got) : got[i] = <<>>
    /\ \E i \in 1..Len(got) : got[i] # <<>>

-----------------------------------------------------------------------------
(* C2 *)

\* C2 as stated: the collection crawl_all returns has as many records as the
\* pages fetched by that crawl returned, and is those records in page order
\* and in-page order.
C2_ReturnedIsThisCrawlsPages ==
    CrawlHasReturned =>
        /\ Len(returned[1]) = SumLen(got)
        /\ returned[1] = Flatten(got)

\* C2 amended: the collection crawl_all returns is the records the spider
\* held when the call started, followed by the records the pages fetched by
\* that crawl returned, in page order and in-page order; its length is the
\* starting length plus the sum of the per-page counts, and during the crawl
\* the collection is the same with the pages fetched so far.
C2_ReturnedIsBaseThenThisCrawlsPages ==
    /\ pc \in {"loop", "pause"} =>
          /\ all_comments = base \o Flatten(got)
          /\ Len(got) = (IF pc = "pause" THEN page + 1 ELSE page)
    /\ CrawlHasReturned =>
          /\ Len(got) = max_page
          /\ Len(returned[1]) = Len(base) + SumLen(got)
          /\ returned[1] = base \o Flatten(got)
          /\ base = <<>> => returned[1] = Flatten(got)

C2_Witness ==
    /\ CrawlHasReturned
    /\ base # <<>>
    /\ \E i \in 1..Len(got) : Len(got[i]) >= 2
    /\ returned[1] = base \o Flatten(got)

-----------------------------------------------------------------------------
(* C3 *)

\* C3: save_to_csv called while the collection is empty leaves both files as
\* they were (none created, none truncated) and reports "nothing to save"
\* (stated for the calls in which open() itself does not raise).
C3_EmptyCsvExportWritesNothing ==
    [][(CallSaveToCsv /\ all_comments = <<>> /\ console' # <<"csv_error">>) =>
          /\ SameFile(fs'.csv, fs.csv)
          /\ SameFile(fs'.json, fs.json)
          /\ console' = <<"nothing_to_save">>]_vars

-----------------------------------------------------------------------------
(* C4 *)

\* the votes the claim gives an item
ClaimedVotes(item) ==
    IF item.votes = <<>> THEN 0
    ELSE LET n == PyInt(Strip(item.votes[1])) IN IF n.ok THEN n.val ELSE 0

RatingExtracts(item) == RatingOf(item).ok

\* C4: every item (whose rating extraction does not fail) yields a record, and
\* the record's votes is the integer of the vote-count text, 0 when the
\* element is absent and 0 when the text is no integer.
C4_VotesDefaultToZero ==
    pc = "parsed" =>
        LET kept == SelectSeq(html_content, RatingExtracts)
        IN  /\ Len(page_comments) = Len(kept)
            /\ \A i \in 1..Len(kept) :
                   i <= Len(page_comments) => page_comments[i].votes = ClaimedVotes(kept[i])

-----------------------------------------------------------------------------
(* C5 *)

ItemExtracts(item) == ParseItem(item).ok

\* C5: the result of _parse_comments is exactly the records of the items
\* whose extraction does not fail, in their in-page order; each failing item
\* is reported once and no failing item makes the call raise.
C5_PerItemIsolation ==
    /\ pc = "parsed" =>
          LET kept == SelectSeq(html_content, ItemExtracts)
          IN  /\ Len(page_comments) = Len(kept)
              /\ \A i \in 1..Len(kept) : page_comments[i] = ParseItem(kept[i]).rec
              /\ console = Repeat("item_error", Len(html_content) - Len(kept))
    /\ pc = "raised" => ~bs4_installed

\* two items that extract and one that does not, in the middle
C5_Witness ==
    /\ pc = "parsed"
    /\ Len(html_content) = 3
    /\ ItemExtracts(html_content[1])
    /\ ~ItemExtracts(html_content[2])
    /\ ItemExtracts(html_content[3])
    /\ html_content[1] # html_content[3]
    /\ Len(page_comments) = 2
    /\ console = <<"item_error">>

-----------------------------------------------------------------------------
(* C6 *)

\* C6: a get_page_comments call whose request times out, fails in transport
\* or is answered with a status other than 200 returns the empty list and
\* raises nothing, crawl_all adds no record for it, pauses, and then takes
\* the next page index, which it fetches when there is one.
C6_FailedFetchIsEmptyAndCrawlGoesOn ==
    [][/\ (IsFetchStep /\ FetchFailed(response')) =>
              /\ pc' = "pause"
              /\ page_comments' = <<>>
              /\ all_comments' = all_comments
              /\ got' = Append(got, <<>>)
       /\ (pc = "pause" /\ pc' # "pause") =>
              /\ pc' = "loop"
              /\ page' = page + 1
              /\ all_comments' = all_comments
              /\ events' = Append(events, Pause(page))
              /\ (page' < max_page => (ENABLED LoopFetch)')
      ]_vars

\* page 0 timed out, page 1 was fetched and returned records
C6_Witness ==
    /\ pc = "pause"
    /\ page = 1
    /\ Len(got) = 2
    /\ got[1] = <<>>
    /\ got[2] # <<>>
    /\ events = <<Fetch(0), Pause(0), Fetch(1)>>

-----------------------------------------------------------------------------
(* C7 *)

\* C7: no failure of a run of main propagates: the run never ends in an
\* uncaught exception, it can always take its next step until it has exited,
\* and when it has exited it has made all max_page fetches and called both
\* exporters (the CSV exporter whatever the JSON exporter did).
C7_MainRecoversEveryFailure ==
    /\ pc # "raised"
    /\ pc # "exited" => ENABLED NextMain
    /\ main_pc \in {"L311", "end"} => "json" \in attempted
    /\ pc = "exited" =>
          /\ events = ExpectedEvents(max_page)
          /\ attempted = {"json", "csv"}

-----------------------------------------------------------------------------
(* C8 *)

\* a class token made of "allstar" followed by one or more digits
IsAllstarDigits(cls) == StartsWithAllstar(cls) /\ AllDigits(Tail(cls))

\* the rating the claim gives an item
ClaimedRating(item) ==
    IF item.rating = <<>> THEN <<>>
    ELSE LET classes == item.rating[1]
             hits == {i \in 1..Len(classes) : IsAllstarDigits(classes[i])}
         IN  IF hits = {} THEN <<>>
             ELSE LET i == CHOOSE h \in hits : \A j \in hits : h <= j
                  IN  <<DecimalValue(Tail(classes[i])) \div 10>>

VotesExtract(item) == VotesOf(item).ok

\* C8: every item (whose votes extraction does not fail) yields a record, and
\* the record's rating is digits // 10 of the first class token of the form
\* "allstar" + digits, other tokens being passed over, and is empty when
\* there is no such token or no rating element.
C8_RatingFromFirstAllstarDigitsToken ==
    pc = "parsed" =>
        LET kept == SelectSeq(html_content, VotesExtract)
        IN  /\ Len(page_comments) = Len(kept)
            /\ \A i \in 1..Len(kept) :
                   i <= Len(page_comments) => page_comments[i].rating = ClaimedRating(kept[i])

-----------------------------------------------------------------------------
(* C9 *)

WellFormed(rec) ==
    /\ DOMAIN rec = {"comment_id", "username", "rating", "content", "votes", "time"}
    /\ rec.rating = <<>> \/ (Len(rec.rating) = 1 /\ rec.rating[1] \in 1..5)
    /\ rec.votes \in Int
    /\ rec.votes >= 0

\* C9: every record of the accumulated collection has the six fields, a
\* rating that is empty or an integer in 1..5, and votes that is an integer
\* >= 0.
C9_CollectedRecordsAreWellFormed ==
    \A i \in 1..Len(all_comments) : WellFormed(all_comments[i])

-----------------------------------------------------------------------------
(* C10 *)

\* C10: every step leaves the records of the collection as a prefix of the
\* new collection; entering crawl_all and the two exporters leave the
\* collection unchanged; and crawl_all returns the collection it was entered
\* with followed by its own pages, so a later crawl_all returns an earlier
\* one's result followed by its own records.
C10_CollectionIsAppendOnly ==
    [][/\ IsPrefix(all_comments, all_comments')
       /\ (CallSaveToJson \/ CallSaveToCsv \/ CallCrawlAll) => all_comments' = all_comments
       /\ IsFetchStep => (pc' = "pause" => all_comments' = all_comments \o page_comments')
       /\ CrawlReturn =>
              /\ returned'[1] = all_comments
              /\ returned # <<>> =>
                    /\ IsPrefix(returned[1], returned'[1])
                    /\ returned'[1] = returned[1] \o Flatten(got)
      ]_vars

\* a second crawl_all, made after an export, has returned more than the first
C10_Witness ==
    /\ CrawlHasReturned
    /\ base # <<>>
    /\ attempted # {}
    /\ Len(returned[1]) > Len(base)
    /\ IsPrefix(base, returned[1])

====
